---- MODULE Spec2Model ----
(***************************************************************************)
(* Model of solution.py: an explicit-Euler n-body integrator.              *)
(*                                                                         *)
(* A body is the Python tuple (mass, (x, y), (vx, vy)); here the tuple     *)
(* <<mass, <<x, y>>, <<vx, vy>>>>, so Python's body[0], body[1][0],        *)
(* body[2][1] are body[1], body[2][1], body[3][2].  The system is the      *)
(* Python list, mutated in place one slot at a time.                       *)
(*                                                                         *)
(* Python floats are modelled as floats with a MantissaBits-bit mantissa   *)
(* and smallest increment 1: every arithmetic result is rounded to the     *)
(* nearest representable value, ties to even, as IEEE-754 does.  Units are *)
(* metres, tenths of a second and 1e13 kg, in which G = 6.67408 rounds to  *)
(* the representable 7.                                                    *)
(***************************************************************************)
EXTENDS Integers, Sequences, FiniteSets

\* ---------------------------------------------------------------- bounds
MantissaBits == 4
MaxBodies == 3
MaxSteps == 2

\* the bodies a caller's system is drawn from: two at one position (equal in
\* mass, not in velocity) and two elsewhere; a system may repeat a body
Heavy == <<5, <<0, 0>>, <<0, 0>>>>
Twin == <<5, <<0, 0>>, <<1, -2>>>>
Light == <<3, <<3, 4>>, <<1, -2>>>>
Far == <<3, <<0, 4>>, <<0, 0>>>>
Bodies == {Heavy, Twin, Light, Far}

\* the time steps a caller passes: reversed, zero, forward
Dts == {-1, 0, 3}

\* ------------------------------------------------- floating-point numbers
Abs(n) == IF n < 0 THEN -n ELSE n

Sign(n) == IF n < 0 THEN -1 ELSE IF n > 0 THEN 1 ELSE 0

RECURSIVE Pow2(_)
Pow2(e) == IF e = 0 THEN 1 ELSE 2 * Pow2(e - 1)

\* the mantissa holds the naturals below this
MantissaLimit == Pow2(MantissaBits)

\* the exponent of the natural n: how many low bits do not fit the mantissa
RECURSIVE Exponent(_)
Exponent(n) == IF n < MantissaLimit THEN 0 ELSE 1 + Exponent(n \div 2)

\* n / d for naturals n, d > 0, to the nearest integer, ties to even
RoundQuotient(n, d) ==
    LET q == n \div d
        r == n % d
    IN  IF 2 * r > d \/ (2 * r = d /\ q % 2 = 1) THEN q + 1 ELSE q

\* the float nearest to the integer n
Fl(n) ==
    LET e == Exponent(Abs(n))
    IN  Sign(n) * RoundQuotient(Abs(n), Pow2(e)) * Pow2(e)

FAdd(a, b) == Fl(a + b)

FSub(a, b) == Fl(a - b)

FMul(a, b) == Fl(a * b)

\* a / b, b # 0 (Python raises ZeroDivisionError for b = 0: see Faults)
FDiv(a, b) == Fl(Sign(a) * Sign(b) * RoundQuotient(Abs(a), Abs(b)))

RECURSIVE FloorSqrt(_, _)
FloorSqrt(n, s) == IF (s + 1) * (s + 1) > n THEN s ELSE FloorSqrt(n, s + 1)

\* math.sqrt: the float nearest to the square root of n >= 0
FSqrt(n) ==
    LET s == FloorSqrt(n, 0)
    IN  Fl(IF n - s * s > s THEN s + 1 ELSE s)

\* ---------------------------------------------------------- the physics
\* G = 6.67408e-11 m^3 kg^-1 s^-2 is 6.67408 in the model's units (m, 0.1 s,
\* 1e13 kg); the float nearest to it is 7
G == 7

calculate_distance(body1, body2) ==
    LET dx == FSub(body1[2][1], body2[2][1])
        dy == FSub(body1[2][2], body2[2][2])
    IN  FSqrt(FAdd(FMul(dx, dx), FMul(dy, dy)))

\* calculate_force divides by r**2 and by r: a ZeroDivisionError when r = 0
ForceFaults(body1, body2) == calculate_distance(body1, body2) = 0

\* calculate_force with line 22 reading body1[1][0] for body1[1][1]
calculate_force_IndexSlip(body1, body2) ==
    LET r == calculate_distance(body1, body2)
        rx == FSub(body2[2][1], body1[2][1])
        ry == FSub(body2[2][2], body1[2][1])
        f == FDiv(FMul(FMul(G, body1[1]), body2[1]), FMul(r, r))
    IN  <<FDiv(FMul(f, rx), r), FDiv(FMul(f, ry), r)>>

calculate_force(body1, body2) ==
    LET r == calculate_distance(body1, body2)
        rx == FSub(body2[2][1], body1[2][1])
        ry == FSub(body2[2][2], body1[2][2])
        f == FDiv(FMul(FMul(G, body1[1]), body2[1]), FMul(r, r))
    IN  <<FDiv(FMul(f, rx), r), FDiv(FMul(f, ry), r)>>

\* the test of line 36: tuples compare by value
Interacts(other, body) == other # body

\* the slots whose force term calculate_net_force_on(body, sys) computes
Included(body, sys) == {j \in 1..Len(sys) : Interacts(sys[j], body)}

RECURSIVE SumForces(_, _, _, _)
SumForces(body, sys, j, acc) ==
    IF j > Len(sys) THEN acc
    ELSE IF Interacts(sys[j], body)
         THEN LET force == calculate_force(body, sys[j])
              IN  SumForces(body, sys, j + 1,
                            <<FAdd(acc[1], force[1]), FAdd(acc[2], force[2])>>)
         ELSE SumForces(body, sys, j + 1, acc)

calculate_net_force_on(body, sys) == SumForces(body, sys, 1, <<0, 0>>)

\* calculate_acceleration(body, sys) raises ZeroDivisionError
Faults(body, sys) ==
    \/ \E j \in Included(body, sys) : ForceFaults(body, sys[j])
    \/ body[1] = 0

calculate_acceleration(body, sys) ==
    LET f == calculate_net_force_on(body, sys)
    IN  <<FDiv(f[1], body[1]), FDiv(f[2], body[1])>>

\* update_velocity adding the acceleration without the time step
NewVelocityBody_NoDt(body, sys, d) ==
    LET a == calculate_acceleration(body, sys)
    IN  <<body[1], body[2], <<FAdd(body[3][1], a[1]), FAdd(body[3][2], a[2])>>>>

\* the tuple update_velocity stores in slot i (lines 53-57)
NewVelocityBody(body, sys, d) ==
    LET a == calculate_acceleration(body, sys)
    IN  <<body[1], body[2],
          <<FAdd(body[3][1], FMul(a[1], d)), FAdd(body[3][2], FMul(a[2], d))>>>>

\* update rebuilding the tuple with x where the mass belongs
NewPositionBody_MassFromX(body, d) ==
    <<body[2][1],
      <<FAdd(body[2][1], FMul(body[3][1], d)), FAdd(body[2][2], FMul(body[3][2], d))>>,
      body[3]>>

\* the tuple update stores in slot i (lines 67-70)
NewPositionBody(body, d) ==
    <<body[1],
      <<FAdd(body[2][1], FMul(body[3][1], d)), FAdd(body[2][2], FMul(body[3][2], d))>>,
      body[3]>>

\* ------------------------------------------------------------- the state
VARIABLES system, dt, num_steps, mode, pc, i, k, err, input, snap, rendered, dumped

vars == <<system, dt, num_steps, mode, pc, i, k, err, input, snap, rendered, dumped>>

RECURSIVE SeqsOf(_, _)
SeqsOf(S, n) ==
    IF n = 0 THEN {<<>>}
    ELSE LET shorter == SeqsOf(S, n - 1)
         IN  shorter \cup {Append(s, b) : s \in {t \in shorter : Len(t) = n - 1}, b \in S}

Systems == SeqsOf(Bodies, MaxBodies)

Init ==
    /\ system \in Systems
    /\ dt \in Dts
    /\ num_steps \in -1..MaxSteps
    /\ mode \in {"simulate", "simulate_with_visualization"}
    /\ pc = "call"
    /\ i = 1
    /\ k = 0
    /\ err = "none"
    /\ input = system
    /\ snap = system
    /\ rendered = <<>>
    /\ dumped = <<>>

\* a loop that runs |num_steps| times
LoopContinues_Abs(kk, n) == kk < Abs(n)

\* a loop that runs once more than num_steps
LoopContinues_Inclusive(kk, n) == kk <= n

\* range(num_steps) yields a further iteration after kk of them
LoopContinues(kk, n) == kk < n

\* ----------------------------------------------------------- the actions
\* simulate is entered: the for loop of line 76 starts
SimulateEnter ==
    /\ pc = "call"
    /\ mode = "simulate"
    /\ pc' = "loop"
    /\ UNCHANGED <<system, dt, num_steps, mode, i, k, err, input, snap, rendered, dumped>>

\* simulate_with_visualization is entered: InitRender(), then the loop
InitRender ==
    /\ pc = "call"
    /\ mode = "simulate_with_visualization"
    /\ pc' = "loop"
    /\ UNCHANGED <<system, dt, num_steps, mode, i, k, err, input, snap, rendered, dumped>>

\* update without its call of update_velocity
UpdateEnter_NoVelocityPass ==
    /\ pc = "loop"
    /\ LoopContinues(k, num_steps)
    /\ pc' = "update_position"
    /\ i' = 1
    /\ snap' = system
    /\ UNCHANGED <<system, dt, num_steps, mode, k, err, input, rendered, dumped>>

\* one more iteration of range(num_steps): update calls update_velocity
UpdateEnter ==
    /\ pc = "loop"
    /\ LoopContinues(k, num_steps)
    /\ pc' = "update_velocity"
    /\ i' = 1
    /\ snap' = system
    /\ UNCHANGED <<system, dt, num_steps, mode, k, err, input, rendered, dumped>>

\* one iteration of the loop of update_velocity
VelocityIter ==
    /\ pc = "update_velocity"
    /\ i <= Len(system)
    /\ ~Faults(system[i], system)
    /\ system' = [system EXCEPT ![i] = NewVelocityBody(system[i], system, dt)]
    /\ i' = i + 1
    /\ UNCHANGED <<dt, num_steps, mode, pc, k, err, input, snap, rendered, dumped>>

\* the iteration divides by zero: the exception leaves every frame
VelocityRaise ==
    /\ pc = "update_velocity"
    /\ i <= Len(system)
    /\ Faults(system[i], system)
    /\ pc' = "raised"
    /\ err' = "ZeroDivisionError"
    /\ UNCHANGED <<system, dt, num_steps, mode, i, k, input, snap, rendered, dumped>>

\* update_velocity returns; update starts its own loop
VelocityReturn ==
    /\ pc = "update_velocity"
    /\ i > Len(system)
    /\ pc' = "update_position"
    /\ i' = 1
    /\ UNCHANGED <<system, dt, num_steps, mode, k, err, input, snap, rendered, dumped>>

\* one iteration of the loop of update
PositionIter ==
    /\ pc = "update_position"
    /\ i <= Len(system)
    /\ system' = [system EXCEPT ![i] = NewPositionBody(system[i], dt)]
    /\ i' = i + 1
    /\ UNCHANGED <<dt, num_steps, mode, pc, k, err, input, snap, rendered, dumped>>

\* simulate_with_visualization without Render and dump_system in its loop
UpdateReturn_NoObservers ==
    /\ pc = "update_position"
    /\ i > Len(system)
    /\ k' = k + 1
    /\ pc' = "loop"
    /\ UNCHANGED <<system, dt, num_steps, mode, i, err, input, snap, rendered, dumped>>

\* update returns to the loop of its caller
UpdateReturn ==
    /\ pc = "update_position"
    /\ i > Len(system)
    /\ k' = k + 1
    /\ pc' = IF mode = "simulate" THEN "loop" ELSE "render"
    /\ UNCHANGED <<system, dt, num_steps, mode, i, err, input, snap, rendered, dumped>>

\* Render(system): the renderer reads the list
Render ==
    /\ pc = "render"
    /\ rendered' = Append(rendered, system)
    /\ pc' = "dump"
    /\ UNCHANGED <<system, dt, num_steps, mode, i, k, err, input, snap, dumped>>

\* the line dump_system prints for a body
DumpLine(body) == <<body[1], body[2][1], body[2][2], body[3][1], body[3][2]>>

dump_system(sys) == [j \in 1..Len(sys) |-> DumpLine(sys[j])]

DumpSystem ==
    /\ pc = "dump"
    /\ dumped' = Append(dumped, dump_system(system))
    /\ pc' = "loop"
    /\ UNCHANGED <<system, dt, num_steps, mode, i, k, err, input, snap, rendered>>

\* range(num_steps) is exhausted (at once when num_steps <= 0): return system
Return ==
    /\ pc = "loop"
    /\ ~LoopContinues(k, num_steps)
    /\ pc' = "returned"
    /\ UNCHANGED <<system, dt, num_steps, mode, i, k, err, input, snap, rendered, dumped>>

Next ==
    \/ SimulateEnter
    \/ InitRender
    \/ UpdateEnter
    \/ VelocityIter
    \/ VelocityRaise
    \/ VelocityReturn
    \/ PositionIter
    \/ UpdateReturn
    \/ Render
    \/ DumpSystem
    \/ Return

Spec == Init /\ [][Next]_vars

\* -------------------------------------------- the functions, call by call
\* What a call yields: the list as it leaves it, and whether it raised.
Returned(sys) == [raised |-> FALSE, system |-> sys]

Raised(sys) == [raised |-> TRUE, system |-> sys]

RECURSIVE VelocityLoop(_, _, _)
VelocityLoop(sys, d, j) ==
    IF j > Len(sys) THEN Returned(sys)
    ELSE IF Faults(sys[j], sys) THEN Raised(sys)
    ELSE VelocityLoop([sys EXCEPT ![j] = NewVelocityBody(sys[j], sys, d)], d, j + 1)

update_velocity(sys, d) == VelocityLoop(sys, d, 1)

RECURSIVE PositionLoop(_, _, _)
PositionLoop(sys, d, j) ==
    IF j > Len(sys) THEN sys
    ELSE PositionLoop([sys EXCEPT ![j] = NewPositionBody(sys[j], d)], d, j + 1)

update(sys, d) ==
    LET v == update_velocity(sys, d)
    IN  IF v.raised THEN v ELSE Returned(PositionLoop(v.system, d, 1))

RECURSIVE StepLoop(_, _, _, _)
StepLoop(sys, d, n, done) ==
    IF ~LoopContinues(done, n) THEN Returned(sys)
    ELSE LET u == update(sys, d)
         IN  IF u.raised THEN u ELSE StepLoop(u.system, d, n, done + 1)

simulate(sys, d, n) == StepLoop(sys, d, n, 0)

\* The step-by-step execution and the functions agree.
ExecutionMatchesFunctions ==
    /\ pc = "returned" =>
          simulate(input, dt, num_steps) = Returned(system)
    /\ pc = "raised" =>
          simulate(input, dt, num_steps) = Raised(system)

\* ------------------------------------------------------------ the claims
Slots == 1..Len(system)

InVelocityIteration == pc = "update_velocity" /\ i <= Len(system)

\* the outcome of calculate_acceleration: the fault, or the value
AccelerationOutcome(body, sys) ==
    IF Faults(body, sys) THEN <<"ZeroDivisionError", <<0, 0>>>>
    ELSE <<"value", calculate_acceleration(body, sys)>>

\* v + a * dt, a from the list as the step found it
SnapshotVelocity(j) ==
    LET a == calculate_acceleration(snap[j], snap)
    IN  <<FAdd(snap[j][3][1], FMul(a[1], dt)), FAdd(snap[j][3][2], FMul(a[2], dt))>>

\* x + v * dt for the position x the step found and a velocity v
SnapshotPosition(j, v) ==
    <<FAdd(snap[j][2][1], FMul(v[1], dt)), FAdd(snap[j][2][2], FMul(v[2], dt))>>

\* C1: in the velocity pass every velocity written is old velocity + dt *
\* acceleration from the list as it was when the pass began, and the writes to
\* slots before i do not change what calculate_acceleration yields for slot i.
C1_SnapshotAcceleration ==
    pc = "update_velocity" =>
        /\ \A j \in Slots : j < i =>
              /\ ~Faults(snap[j], snap)
              /\ system[j] = <<snap[j][1], snap[j][2], SnapshotVelocity(j)>>
        /\ i <= Len(system) =>
              AccelerationOutcome(system[i], system) = AccelerationOutcome(snap[i], snap)

\* C2: the force sum for slot i has the term of every other slot and leaves
\* out slot i alone, whatever the values of the bodies.
C2_IdentityExclusion ==
    InVelocityIteration => Included(system[i], system) = Slots \ {i}

\* C3: when the force on slot i is summed and another slot has the position of
\* slot i, the sum divides by zero and simulate ends with that error.
C3_CoincidentPositionsFault ==
    /\ InVelocityIteration /\ (\E j \in Slots \ {i} : system[j][2] = system[i][2])
          => Faults(system[i], system)
    /\ pc = "raised" => err = "ZeroDivisionError"

C5_VelocityThenPosition ==
    /\ pc = "update_position" =>
          \A j \in Slots :
              /\ ~Faults(snap[j], snap)
              /\ LET v == SnapshotVelocity(j)
                 IN  /\ system[j][3] = v
                     /\ system[j][2] = IF j < i THEN SnapshotPosition(j, v) ELSE snap[j][2]
    /\ pc \in {"loop", "render", "dump", "returned"} /\ k > 0 =>
          \A j \in Slots :
              /\ ~Faults(snap[j], snap)
              /\ LET v == SnapshotVelocity(j)
                 IN  /\ system[j][3] = v
                     /\ system[j][2] = SnapshotPosition(j, v)

C5_Witness ==
    /\ pc = "loop"
    /\ k = 1
    /\ Len(system) = 3
    /\ \A j \in Slots : system[j][3] # snap[j][3] /\ system[j][2] # snap[j][2]
    /\ \E j \in Slots : snap[j][3] # <<0, 0>>

\* C6: with num_steps = 0 no step is taken and the list returned equals the
\* list passed, for every system and dt.
C6_ZeroSteps ==
    num_steps = 0 =>
        /\ pc \in {"call", "loop", "returned"}
        /\ k = 0
        /\ err = "none"
        /\ system = input

C6_Witness == num_steps = 0 /\ pc = "returned" /\ Len(system) = 3 /\ dt # 0

VisualizedSteps == IF pc = "render" THEN k - 1 ELSE k

\* the lists the first n steps produce, one after the other
RECURSIVE StepResults(_, _, _)
StepResults(sys, d, n) ==
    IF n <= 0 THEN <<>>
    ELSE LET u == update(sys, d)
         IN  IF u.raised THEN <<>> ELSE <<u.system>> \o StepResults(u.system, d, n - 1)

\* C7: simulate_with_visualization takes num_steps steps; after step s, before
\* step s + 1, Render and then dump_system see the list step s produced, once
\* each; the list is not changed by them, so what is returned is what simulate
\* returns.
C7_ObservedSteps ==
    mode = "simulate_with_visualization" =>
        LET produced == StepResults(input, dt, k)
        IN  /\ Len(produced) = k
            /\ rendered = SubSeq(produced, 1, VisualizedSteps)
            /\ dumped = [s \in 1..(IF pc = "dump" THEN k - 1 ELSE VisualizedSteps)
                            |-> dump_system(produced[s])]
            /\ pc \in {"render", "dump"} => system = produced[k]
            /\ pc = "returned" =>
                  /\ k = IF num_steps < 0 THEN 0 ELSE num_steps
                  /\ Returned(system) = simulate(input, dt, num_steps)

C7_Witness ==
    /\ mode = "simulate_with_visualization"
    /\ pc = "returned"
    /\ k = 2
    /\ Len(system) = 3
    /\ Len(rendered) = 2
    /\ Len(dumped) = 2
    /\ rendered[1] # rendered[2]
    /\ rendered[1] # input

\* C8: in every state of a run the list has as many bodies as it began with
\* and every slot has its first mass, which is positive.
C8_MassesAndLength ==
    /\ Len(system) = Len(input)
    /\ \A j \in Slots : system[j][1] = input[j][1] /\ system[j][1] > 0

C8_Witness ==
    /\ pc = "update_position"
    /\ k = 1
    /\ i = 2
    /\ Len(system) = 3
    /\ system[1] # snap[1]
    /\ snap # input

PairwiseDistinctPositions(sys) ==
    \A a, b \in 1..Len(sys) : a # b => sys[a][2] # sys[b][2]

Negated(f) == <<-f[1], -f[2]>>

\* the pairs of slots at distinct positions, while the forces are summed
DistinctPairs ==
    IF pc = "update_velocity"
    THEN {p \in Slots \X Slots : p[1] < p[2] /\ system[p[1]][2] # system[p[2]][2]}
    ELSE {}

====
